---- MODULE Spec2Model ----
(***************************************************************************)
(* Model of the transform phase of the e-commerce data pipeline            *)
(* (scripts/transform.py): the download of the three raw datasets, the     *)
(* fact builder, the three aggregate builders, the load into the           *)
(* warehouse and the exit convention of main().                            *)
(*                                                                         *)
(* Conventions.                                                            *)
(*  - A DataFrame is a sequence of records (its rows, in row order).       *)
(*  - Money is an integer number of mills (1/1000 of a currency unit), so  *)
(*    that DataFrame.round(2) is a real rounding to multiples of 10.       *)
(*  - A cell that pandas would fill with NaN is the empty set, a present   *)
(*    value v of a nullable column is {v}.  The columns of the raw orders  *)
(*    table are never missing and are kept as plain values.                *)
(*  - A Python variable that is not assigned yet is None (the empty set),  *)
(*    an assigned one is Some(value).                                      *)
(*  - Dates are day numbers.                                               *)
(***************************************************************************)
EXTENDS Integers, Sequences, FiniteSets, TLC

VARIABLES
    pc,                   \* position of the process
    environ,              \* os.environ: the names that are set
    raw,                  \* the three datasets held by the bucket
    data_files,           \* download_from_gcs: name -> downloaded DataFrame
    fact_orders,          \* result of create_fact_orders
    daily_sales_summary,  \* result of create_daily_sales_summary
    customer_analytics,   \* result of create_customer_analytics
    product_performance,  \* result of create_product_performance
    calls,                \* the functions invoked so far, in order
    reads,                \* builder -> the tables passed to it
    load_pos,             \* load_to_bigquery: index of the next table
    load_log,             \* load_to_bigquery: <<table, loaded?>> per attempt
    success_count,        \* load_to_bigquery: success_count
    warehouse,            \* BigQuery: table name -> content
    reported_errors,      \* main: the error count printed in the else branch
    github_output,        \* lines appended to the GITHUB_OUTPUT file
    error,                \* the exception that reached main's handler
    exit_status,          \* exit status of the process
    run,                  \* number of the pipeline run, from 1
    persisted,            \* table name -> the dataset of the latest earlier run
                          \*   whose load of the table succeeded
    dq                    \* the data quality process: outcome of its checks

vars == <<pc, environ, raw, data_files, fact_orders, daily_sales_summary,
          customer_analytics, product_performance, calls, reads, load_pos,
          load_log, success_count, warehouse, reported_errors, github_output,
          error, exit_status, run, persisted, dq>>

\* ------------------------------------------------------------------ bounds
\* Longest orders table handed to the builders when they are called directly.
MaxOrders == 3
\* Longest orders table held by the bucket in a run of main().
MaxRunOrders == 2

\* Number of pipeline runs against the same warehouse dataset.
MaxRuns == 2

\* The last day (as a day number) the data quality checks can run on.
MaxCheckDay == 4

\* ----------------------------------------------------------------- options
None == {}
Some(x) == {x}
Get(o) == CHOOSE x \in o : TRUE
NaN == {}

\* ------------------------------------------------------------- input data
\* Product master rows (products.csv).  P1 and P2 are the products of the
\* two-order scenario; P3 sells at the price of P2.
ProductsMaster ==
    << [product_id |-> "P1", name |-> "Novel", category |-> "Books",
        brand |-> "BookWorld", price |-> 10000, cost |-> 4000,
        stock_quantity |-> 10],
       [product_id |-> "P2", name |-> "Phone", category |-> "Electronics",
        brand |-> "TechCorp", price |-> 50000, cost |-> 20000,
        stock_quantity |-> 5],
       [product_id |-> "P3", name |-> "Atlas", category |-> "Books",
        brand |-> "Generic", price |-> 50000, cost |-> 20000,
        stock_quantity |-> 0] >>

\* A product master in which product id P1 occurs twice.
ProductsDuplicated ==
    Append(ProductsMaster,
       [product_id |-> "P1", name |-> "Novel (toy)", category |-> "Toys",
        brand |-> "Generic", price |-> 10000, cost |-> 5000,
        stock_quantity |-> 1])

\* Customer master rows (customers.csv).
CustomersMaster ==
    << [customer_id |-> "C1", city |-> "Mumbai", age_group |-> "26-35",
        customer_segment |-> "Regular", signup_date |-> 0],
       [customer_id |-> "C2", city |-> "Delhi", age_group |-> "18-25",
        customer_segment |-> "Premium", signup_date |-> 1],
       [customer_id |-> "C3", city |-> "Pune", age_group |-> "55+",
        customer_segment |-> "Budget", signup_date |-> 1] >>

\* A customer master in which customer id C1 occurs twice.
CustomersDuplicated ==
    Append(CustomersMaster,
       [customer_id |-> "C1", city |-> "Chennai", age_group |-> "26-35",
        customer_segment |-> "Regular", signup_date |-> 0])

\* Orders: who ordered when.  C9 is a customer the master does not hold.
OrderHeads ==
    << [order_id |-> "O1", customer_id |-> "C1", order_date |-> 1],
       [order_id |-> "O2", customer_id |-> "C1", order_date |-> 2],
       [order_id |-> "O3", customer_id |-> "C2", order_date |-> 2],
       [order_id |-> "O4", customer_id |-> "C9", order_date |-> 2] >>

\* Line items: what was ordered.  P9 is a product the master does not hold.
\* item_total = unit_price * quantity as extract.py writes it.
OrderItems ==
    << [product_id |-> "P1", quantity |-> 2, unit_price |-> 10000,
        item_total |-> 20000, discount_amount |-> 1000],
       [product_id |-> "P1", quantity |-> 1, unit_price |-> 10000,
        item_total |-> 10000, discount_amount |-> 0],
       [product_id |-> "P2", quantity |-> 1, unit_price |-> 50000,
        item_total |-> 50000, discount_amount |-> 0],
       [product_id |-> "P3", quantity |-> 1, unit_price |-> 50000,
        item_total |-> 50000, discount_amount |-> 2000],
       [product_id |-> "P9", quantity |-> 1, unit_price |-> 30000,
        item_total |-> 30000, discount_amount |-> 0] >>

\* The rows an orders table is drawn from: every line item under every head.
OrderRows ==
    [k \in 1..(Len(OrderHeads) * Len(OrderItems)) |->
        OrderHeads[((k - 1) \div Len(OrderItems)) + 1]
            @@ OrderItems[((k - 1) % Len(OrderItems)) + 1]]

\* The rows the bucket's orders table is drawn from in a run of main():
\* orders A and B of the scenario, an order of C2, and an order of an
\* unknown customer for an unknown product.
RunOrderRows == << OrderRows[1], OrderRows[8], OrderRows[12], OrderRows[14],
                   OrderRows[20] >>

\* The orders tables of at most n rows drawn from rows, rows in catalogue order.
RECURSIVE IndexSeqs(_, _, _)
IndexSeqs(n, lo, hi) ==
    IF n = 0 THEN {<<>>}
    ELSE {<<>>} \cup UNION {{<<i>> \o s : s \in IndexSeqs(n - 1, i, hi)} : i \in lo..hi}

OrdersTables(rows, n) ==
    {[j \in 1..Len(s) |-> rows[s[j]]] : s \in IndexSeqs(n, 1, Len(rows))}

\* ------------------------------------------------------ numeric primitives
\* n / d rounded to the nearest integer, halves to even (numpy's round), d > 0.
RoundHalfEven(n, d) ==
    LET q == n \div d
        r == n % d
    IN  IF 2 * r < d THEN q
        ELSE IF 2 * r > d THEN q + 1
        ELSE IF q % 2 = 0 THEN q ELSE q + 1

\* round(2) of an amount in mills.
Round2(x) == RoundHalfEven(x, 10) * 10

\* (a / n).round(2) of an amount in mills, n > 0.
DivRound2(a, n) == RoundHalfEven(a, 10 * n) * 10

\* Elementwise arithmetic on nullable cells: NaN propagates.
Sub(a, b) == {x - y : x \in a, y \in b}
Mul(a, b) == {x * y : x \in a, y \in b}

\* (a / b * 100).round(2), in hundredths of a percent.  A zero divisor gives
\* NaN or an infinity in numpy; the cell is then not a number.  The quotient
\* a * 10000 / b is taken in two steps to stay within 32-bit integers.
Percent(a, b) ==
    IF a = NaN \/ b = NaN THEN NaN
    ELSE IF Get(b) <= 0 THEN NaN
    ELSE LET x == Get(a) * 100
         IN  {(x \div Get(b)) * 100 + RoundHalfEven((x % Get(b)) * 100, Get(b))}

\* Series.sum(): the sum of the present cells (skipna), 0 for none.
RECURSIVE SumSkipNa(_)
SumSkipNa(col) ==
    IF col = <<>> THEN 0
    ELSE (IF Head(col) = NaN THEN 0 ELSE Get(Head(col))) + SumSkipNa(Tail(col))

\* A column of a table as it is, and a plain column as a nullable one.
Col(table, name) == [i \in 1..Len(table) |-> table[i][name]]
ColP(table, name) == [i \in 1..Len(table) |-> {table[i][name]}]

\* The values of a plain column.
Values(table, name) == {table[i][name] : i \in 1..Len(table)}

\* ------------------------------------------------------------------ merge
\* The columns of `r` named in cols, as nullable cells.
Dims(r, cols) == [c \in cols |-> {r[c]}]
MissingDims(cols) == [c \in cols |-> NaN]

\* DataFrame.merge(right, on=key, how='inner'): unmatched left rows are dropped.
RECURSIVE InnerMerge(_, _, _, _)
InnerMerge(left, right, key, cols) ==
    IF left = <<>> THEN <<>>
    ELSE LET l == Head(left)
             m == SelectSeq(right, LAMBDA r : r[key] = l[key])
         IN  [j \in 1..Len(m) |-> l @@ Dims(m[j], cols)]
                 \o InnerMerge(Tail(left), right, key, cols)

\* DataFrame.merge(right, on=key, how='left'): every left row, in order, once
\* per right row of the same key, and once with missing cells when there is none.
RECURSIVE LeftMerge(_, _, _, _)
LeftMerge(left, right, key, cols) ==
    IF left = <<>> THEN <<>>
    ELSE LET l == Head(left)
             m == SelectSeq(right, LAMBDA r : r[key] = l[key])
         IN  (IF m = <<>> THEN << l @@ MissingDims(cols) >>
              ELSE [j \in 1..Len(m) |-> l @@ Dims(m[j], cols)])
                 \o LeftMerge(Tail(left), right, key, cols)

\* ----------------------------------------------------- create_fact_orders
\* The time dimensions (year, month, quarter, day_of_week, week_number,
\* is_weekend) are functions of order_date alone and are left out.
FactMetrics(r) ==
    LET gross == Mul(Sub({r.unit_price}, r.cost), {r.quantity})
        net == Sub(gross, {r.discount_amount})
    IN  r @@ [gross_profit |-> gross,
              net_profit |-> net,
              profit_margin |-> Percent(net, {r.item_total}),
              revenue_after_discount |-> r.item_total - r.discount_amount]

\* products_df[[...]].rename(columns={'name': 'product_name'})
ProductDims(products_df) ==
    [i \in 1..Len(products_df) |->
        [product_id |-> products_df[i].product_id,
         product_name |-> products_df[i].name,
         category |-> products_df[i].category,
         brand |-> products_df[i].brand,
         cost |-> products_df[i].cost]]

create_fact_orders(orders_df, products_df, customers_df) ==
    LET with_products ==
            LeftMerge(orders_df, ProductDims(products_df), "product_id",
                      {"product_name", "category", "brand", "cost"})
        with_customers ==
            LeftMerge(with_products, customers_df, "customer_id",
                      {"city", "age_group", "customer_segment"})
    IN  [i \in 1..Len(with_customers) |-> FactMetrics(with_customers[i])]

\* --------------------------------------------------------- groupby helpers
\* The universes of the key columns in ascending order: groupby(sort=True)
\* emits one row per group in ascending key order.
DatesSorted == <<0, 1, 2, 3>>
CategoriesSorted == <<"Books", "Electronics", "Toys">>
BrandsSorted == <<"BookWorld", "Generic", "TechCorp">>
ProductIdsSorted == <<"P1", "P2", "P3", "P9">>
CustomerIdsSorted == <<"C1", "C2", "C3", "C9">>

Cross2(A, B) ==
    [k \in 1..(Len(A) * Len(B)) |->
        <<A[((k - 1) \div Len(B)) + 1], B[((k - 1) % Len(B)) + 1]>>]

Cross3(A, B, C) ==
    [k \in 1..(Len(A) * Len(B) * Len(C)) |->
        <<A[((k - 1) \div (Len(B) * Len(C))) + 1],
          B[(((k - 1) \div Len(C)) % Len(B)) + 1],
          C[((k - 1) % Len(C)) + 1]>>]

\* Series.min() / Series.max() of a non-empty set of day numbers.
Min(S) == CHOOSE x \in S : \A y \in S : x <= y
Max(S) == CHOOSE x \in S : \A y \in S : x >= y

\* ---------------------------------------------- create_daily_sales_summary
\* groupby(['order_date', 'category']): rows whose category is missing belong
\* to no group (dropna=True is the default of groupby).
DailyKey(r) == <<r.order_date, r.category>>

DailyGroups(fact) ==
    SelectSeq(Cross2(DatesSorted, CategoriesSorted),
              LAMBDA k : \E i \in 1..Len(fact) : DailyKey(fact[i]) = <<k[1], {k[2]}>>)

DailyRow(fact, k) ==
    LET g == SelectSeq(fact, LAMBDA r : DailyKey(r) = <<k[1], {k[2]}>>)
        total_revenue == Round2(SumSkipNa(ColP(g, "item_total")))
        net_profit == Round2(SumSkipNa(Col(g, "net_profit")))
        unique_orders == Cardinality(Values(g, "order_id"))
    IN  [order_date |-> k[1],
         category |-> k[2],
         total_revenue |-> total_revenue,
         revenue_after_discount |-> Round2(SumSkipNa(ColP(g, "revenue_after_discount"))),
         net_profit |-> net_profit,
         gross_profit |-> Round2(SumSkipNa(Col(g, "gross_profit"))),
         total_discount |-> Round2(SumSkipNa(ColP(g, "discount_amount"))),
         total_quantity |-> SumSkipNa(ColP(g, "quantity")),
         unique_orders |-> unique_orders,
         unique_customers |-> Cardinality(Values(g, "customer_id")),
         profit_margin |-> Percent({net_profit}, {total_revenue}),
         average_order_value |-> DivRound2(total_revenue, unique_orders)]

create_daily_sales_summary(fact) ==
    LET keys == DailyGroups(fact)
    IN  [j \in 1..Len(keys) |-> DailyRow(fact, keys[j])]

\* ----------------------------------------------------------------- pd.qcut
\* The values of a column in ascending order.
RECURSIVE SortedValues(_)
SortedValues(col) ==
    IF col = <<>> THEN <<>>
    ELSE LET i == CHOOSE j \in 1..Len(col) : \A k \in 1..Len(col) : col[j] <= col[k]
         IN  <<col[i]>> \o SortedValues([j \in 1..(Len(col) - 1) |->
                                            IF j < i THEN col[j] ELSE col[j + 1]])

\* Four times the k-th quartile (k in 0..4) of a non-empty column, by linear
\* interpolation between the order statistics (Series.quantile's default).
Quartile4(col, k) ==
    LET x == SortedValues(col)
        h == k * (Len(x) - 1)
        lo == (h \div 4) + 1
        r == h % 4
    IN  IF r = 0 THEN 4 * x[lo] ELSE 4 * x[lo] + r * (x[lo + 1] - x[lo])

\* The five bin edges of qcut(col, q=4), times four.  Of an empty column
\* every quantile is NaN.
QcutEdges(col) ==
    IF col = <<>> THEN [k \in 1..5 |-> NaN]
    ELSE [k \in 1..5 |-> {Quartile4(col, k - 1)}]

\* qcut raises ValueError("Bin edges must be unique") when two edges coincide.
QcutRaises(col) ==
    Cardinality({QcutEdges(col)[k] : k \in 1..5}) < 5

LtvLabels == <<"Low", "Medium", "High", "Premium">>

\* The label of value v: bins are right-closed and the lowest edge is included,
\* so the bin is the number of edges below v, and the first bin for the minimum.
QcutLabel(col, v) ==
    LET edges == QcutEdges(col)
        below == Cardinality({k \in 1..5 : Get(edges[k]) < 4 * v})
    IN  LtvLabels[IF below = 0 THEN 1 ELSE below]

\* ----------------------------------------------- create_customer_analytics
CustomerGroups(fact) ==
    SelectSeq(CustomerIdsSorted,
              LAMBDA c : \E i \in 1..Len(fact) : fact[i].customer_id = c)

CustomerSummaryRow(fact, c) ==
    LET g == SelectSeq(fact, LAMBDA r : r.customer_id = c)
        spent == SumSkipNa(ColP(g, "item_total"))
    IN  [customer_id |-> c,
         total_spent |-> Round2(spent),
         avg_order_value |-> DivRound2(spent, Len(g)),
         total_orders |-> Len(g),
         total_profit_generated |-> Round2(SumSkipNa(Col(g, "net_profit"))),
         first_order_date |-> Min(Values(g, "order_date")),
         last_order_date |-> Max(Values(g, "order_date")),
         unique_orders |-> Cardinality(Values(g, "order_id")),
         total_items_bought |-> SumSkipNa(ColP(g, "quantity"))]

CustomerSummary(fact) ==
    LET keys == CustomerGroups(fact)
    IN  [j \in 1..Len(keys) |-> CustomerSummaryRow(fact, keys[j])]

CustomerMerged(fact, customers_df) ==
    LET m == LeftMerge(CustomerSummary(fact), customers_df, "customer_id",
                       {"city", "age_group", "customer_segment", "signup_date"})
    IN  [i \in 1..Len(m) |->
            m[i] @@ [days_to_first_order |-> Sub({m[i].first_order_date}, m[i].signup_date),
                     customer_lifetime_days |-> m[i].last_order_date - m[i].first_order_date]]

\* create_customer_analytics raises exactly when pd.qcut does.
CustomerAnalyticsRaises(fact, customers_df) ==
    QcutRaises(Col(CustomerMerged(fact, customers_df), "total_spent"))

create_customer_analytics(fact, customers_df) ==
    LET m == CustomerMerged(fact, customers_df)
        spent == Col(m, "total_spent")
    IN  [i \in 1..Len(m) |-> m[i] @@ [ltv_segment |-> QcutLabel(spent, m[i].total_spent)]]

\* ------------------------------------------------------------- Series.rank
\* rank(method='min', ascending=False): one more than the number of rows with
\* a larger value, so a tie leaves a gap behind it.
MinRank(col, v) ==
    1 + Cardinality({i \in 1..Len(col) : col[i] > v})

\* rank(method='dense', ascending=False): one more than the number of
\* distinct larger values.
DenseRank(col, v) ==
    1 + Cardinality({col[i] : i \in {j \in 1..Len(col) : col[j] > v}})

\* ---------------------------------------------- create_product_performance
\* groupby(['product_id', 'category', 'brand']): rows whose category or brand
\* is missing belong to no group.
ProductKey(r) == <<r.product_id, r.category, r.brand>>

ProductGroups(fact) ==
    SelectSeq(Cross3(ProductIdsSorted, CategoriesSorted, BrandsSorted),
              LAMBDA k : \E i \in 1..Len(fact) :
                            ProductKey(fact[i]) = <<k[1], {k[2]}, {k[3]}>>)

ProductSummaryRow(fact, k) ==
    LET g == SelectSeq(fact, LAMBDA r : ProductKey(r) = <<k[1], {k[2]}, {k[3]}>>)
    IN  [product_id |-> k[1],
         category |-> k[2],
         brand |-> k[3],
         total_revenue |-> Round2(SumSkipNa(ColP(g, "item_total"))),
         total_profit |-> Round2(SumSkipNa(Col(g, "net_profit"))),
         total_quantity_sold |-> SumSkipNa(ColP(g, "quantity")),
         unique_orders |-> Cardinality(Values(g, "order_id")),
         unique_customers |-> Cardinality(Values(g, "customer_id"))]

ProductSummary(fact) ==
    LET keys == ProductGroups(fact)
    IN  [j \in 1..Len(keys) |-> ProductSummaryRow(fact, keys[j])]

\* The ratio columns avg_selling_price and inventory_turnover are left out.
create_product_performance(fact, products_df) ==
    LET m == LeftMerge(ProductSummary(fact), products_df, "product_id",
                       {"name", "price", "cost", "stock_quantity"})
        revenue == Col(m, "total_revenue")
        profit == Col(m, "total_profit")
    IN  [i \in 1..Len(m) |->
            m[i] @@ [profit_margin |-> Percent({m[i].total_profit}, {m[i].total_revenue}),
                     revenue_rank |-> DenseRank(revenue, m[i].total_revenue),
                     profit_rank |-> DenseRank(profit, m[i].total_profit)]]

\* ------------------------------------------------------------ the pipeline
\* download_from_gcs fetches the files in this order.
FileNames == <<"products", "customers", "orders">>

\* transformed_tables, in insertion order (the order load_to_bigquery iterates).
TableNames == <<"fact_orders", "daily_sales_summary", "customer_analytics",
                "product_performance", "dim_products", "dim_customers">>

AggregateBuilders == {"create_daily_sales_summary", "create_customer_analytics",
                      "create_product_performance"}

\* The dictionary main() hands to load_to_bigquery.
TransformedTables ==
    [t \in {TableNames[i] : i \in 1..Len(TableNames)} |->
        CASE t = "fact_orders" -> Get(fact_orders)
          [] t = "daily_sales_summary" -> Get(daily_sales_summary)
          [] t = "customer_analytics" -> Get(customer_analytics)
          [] t = "product_performance" -> Get(product_performance)
          [] t = "dim_products" -> Get(data_files["products"])
          [] t = "dim_customers" -> Get(data_files["customers"])]

\* The data quality process has not run.
NotChecked == [status |-> "not run", today |-> 0, issues |-> {}]

\* The state of a process that has imported the module and called nothing,
\* with a dataset that holds no table yet.
Fresh(env, bucket) ==
    /\ environ = env
    /\ raw = bucket
    /\ data_files = [f \in {FileNames[i] : i \in 1..Len(FileNames)} |-> None]
    /\ fact_orders = None
    /\ daily_sales_summary = None
    /\ customer_analytics = None
    /\ product_performance = None
    /\ calls = <<>>
    /\ reads = [b \in AggregateBuilders |-> {}]
    /\ load_pos = 0
    /\ load_log = <<>>
    /\ success_count = 0
    /\ warehouse = [t \in {TableNames[i] : i \in 1..Len(TableNames)} |-> None]
    /\ reported_errors = None
    /\ github_output = <<>>
    /\ error = None
    /\ exit_status = None
    /\ run = 1
    /\ persisted = [t \in {TableNames[i] : i \in 1..Len(TableNames)} |-> None]
    /\ dq = NotChecked

\* A run of main(): the bucket holds the masters and a short orders table.
Init ==
    /\ pc = "main"
    /\ \E env \in SUBSET {"GITHUB_ACTIONS", "GITHUB_OUTPUT"} :
       \E orders \in OrdersTables(RunOrderRows, MaxRunOrders) :
          Fresh(env, [products |-> ProductsMaster, customers |-> CustomersMaster,
                      orders |-> orders])

\* The builders called directly on tables drawn from the catalogue, with
\* masters whose ids are unique, or with one id repeated in one master.
InitBuilders ==
    /\ pc = "unit"
    /\ \E orders \in OrdersTables(OrderRows, MaxOrders) :
       \E masters \in {<<ProductsMaster, CustomersMaster>>,
                        <<ProductsDuplicated, CustomersMaster>>,
                        <<ProductsMaster, CustomersDuplicated>>} :
          Fresh({}, [products |-> masters[1], customers |-> masters[2],
                     orders |-> orders])

\* ------------------------------------------------- the builders, as effects
DoCreateFactOrders(orders_df, products_df, customers_df) ==
    /\ calls' = Append(calls, "create_fact_orders")
    /\ fact_orders' = Some(create_fact_orders(orders_df, products_df, customers_df))

DoCreateDailySalesSummary ==
    /\ calls' = Append(calls, "create_daily_sales_summary")
    /\ reads' = [reads EXCEPT !["create_daily_sales_summary"] = {"fact_orders"}]
    /\ daily_sales_summary' = Some(create_daily_sales_summary(Get(fact_orders)))

\* The call of create_customer_analytics: it returns the table, or pd.qcut
\* raises and nothing is assigned.
DoCreateCustomerAnalytics(customers_df, returned, raised) ==
    /\ calls' = Append(calls, "create_customer_analytics")
    /\ reads' = [reads EXCEPT !["create_customer_analytics"] = {"fact_orders", "customers"}]
    /\ IF CustomerAnalyticsRaises(Get(fact_orders), customers_df)
       THEN /\ error' = Some("ValueError: Bin edges must be unique")
            /\ pc' = raised
            /\ UNCHANGED customer_analytics
       ELSE /\ customer_analytics' =
                   Some(create_customer_analytics(Get(fact_orders), customers_df))
            /\ pc' = returned
            /\ UNCHANGED error

DoCreateProductPerformance(products_df) ==
    /\ calls' = Append(calls, "create_product_performance")
    /\ reads' = [reads EXCEPT !["create_product_performance"] = {"fact_orders", "products"}]
    /\ product_performance' =
           Some(create_product_performance(Get(fact_orders), products_df))

\* --------------------------------------------------- direct calls (tests)
UnitCreateFactOrders ==
    /\ pc = "unit"
    /\ fact_orders = None
    /\ DoCreateFactOrders(raw.orders, raw.products, raw.customers)
    /\ UNCHANGED <<run, persisted, dq, pc, environ, raw, data_files, daily_sales_summary,
                   customer_analytics, product_performance, reads, load_pos,
                   load_log, success_count, warehouse, reported_errors,
                   github_output, error, exit_status>>

UnitCreateDailySalesSummary ==
    /\ pc = "unit"
    /\ fact_orders # None
    /\ DoCreateDailySalesSummary
    /\ pc' = "returned"
    /\ UNCHANGED <<run, persisted, dq, environ, raw, data_files, fact_orders, customer_analytics,
                   product_performance, load_pos, load_log, success_count,
                   warehouse, reported_errors, github_output, error, exit_status>>

UnitCreateCustomerAnalytics ==
    /\ pc = "unit"
    /\ fact_orders # None
    /\ DoCreateCustomerAnalytics(raw.customers, "returned", "raised")
    /\ UNCHANGED <<run, persisted, dq, environ, raw, data_files, fact_orders,
                   daily_sales_summary,
                   product_performance, load_pos, load_log, success_count,
                   warehouse, reported_errors, github_output, exit_status>>

UnitCreateProductPerformance ==
    /\ pc = "unit"
    /\ fact_orders # None
    /\ DoCreateProductPerformance(raw.products)
    /\ pc' = "returned"
    /\ UNCHANGED <<run, persisted, dq, environ, raw, data_files, fact_orders,
                   daily_sales_summary,
                   customer_analytics, load_pos, load_log, success_count,
                   warehouse, reported_errors, github_output, error, exit_status>>

NextBuilders ==
    \/ UnitCreateFactOrders
    \/ UnitCreateDailySalesSummary
    \/ UnitCreateCustomerAnalytics
    \/ UnitCreateProductPerformance

SpecBuilders == InitBuilders /\ [][NextBuilders]_vars

\* ------------------------------------------------------- download_from_gcs
\* The next file of the download loop.
NextFile == CHOOSE f \in {FileNames[i] : i \in 1..Len(FileNames)} :
                /\ data_files[f] = None
                /\ \A i, j \in 1..Len(FileNames) :
                      (FileNames[j] = f /\ i < j) => data_files[FileNames[i]] # None

MainStart ==
    /\ pc = "main"
    /\ pc' = "download"
    /\ calls' = Append(calls, "download_from_gcs")
    /\ UNCHANGED <<run, persisted, dq, environ, raw, data_files, fact_orders,
                   daily_sales_summary,
                   customer_analytics, product_performance, reads, load_pos,
                   load_log, success_count, warehouse, reported_errors,
                   github_output, error, exit_status>>

\* One iteration of the loop whose blob is retrieved and parsed.
DownloadFile ==
    /\ pc = "download"
    /\ data_files' = [data_files EXCEPT ![NextFile] = Some(raw[NextFile])]
    /\ pc' = IF NextFile = FileNames[Len(FileNames)] THEN "fact" ELSE "download"
    /\ UNCHANGED <<run, persisted, dq, environ, raw, fact_orders, daily_sales_summary,
                   customer_analytics, product_performance, calls, reads,
                   load_pos, load_log, success_count, warehouse,
                   reported_errors, github_output, error, exit_status>>

\* A download whose failure is only printed: the loop goes on with an empty
\* table in place of the file.
DownloadFailsSwallowed ==
    /\ pc = "download"
    /\ data_files' = [data_files EXCEPT ![NextFile] = Some(<<>>)]
    /\ error' = Some("download")
    /\ pc' = IF NextFile = FileNames[Len(FileNames)] THEN "fact" ELSE "download"
    /\ UNCHANGED <<run, persisted, dq, environ, raw, fact_orders, daily_sales_summary,
                   customer_analytics, product_performance, calls, reads,
                   load_pos, load_log, success_count, warehouse,
                   reported_errors, github_output, exit_status>>

\* One iteration whose retrieval fails: the except clause prints and re-raises,
\* and the exception leaves download_from_gcs for main's handler.
DownloadFails ==
    /\ pc = "download"
    /\ error' = Some("download")
    /\ pc' = "except"
    /\ UNCHANGED <<run, persisted, dq, environ, raw, data_files, fact_orders,
                   daily_sales_summary,
                   customer_analytics, product_performance, calls, reads,
                   load_pos, load_log, success_count, warehouse,
                   reported_errors, github_output, exit_status>>

\* --------------------------------------------------- main: the four builders
MainCreateFactOrders ==
    /\ pc = "fact"
    /\ DoCreateFactOrders(Get(data_files["orders"]), Get(data_files["products"]),
                          Get(data_files["customers"]))
    /\ pc' = "daily"
    /\ UNCHANGED <<run, persisted, dq, environ, raw, data_files, daily_sales_summary,
                   customer_analytics, product_performance, reads, load_pos,
                   load_log, success_count, warehouse, reported_errors,
                   github_output, error, exit_status>>

\* A daily summary builder that drops the rows without a category from the
\* fact table it was passed (dropna(inplace=True)) before grouping.
MainCreateDailySalesSummaryInPlace ==
    /\ pc = "daily"
    /\ DoCreateDailySalesSummary
    /\ fact_orders' = Some(SelectSeq(Get(fact_orders), LAMBDA r : r.category # NaN))
    /\ pc' = "customer"
    /\ UNCHANGED <<run, persisted, dq, environ, raw, data_files, customer_analytics,
                   product_performance, load_pos, load_log, success_count,
                   warehouse, reported_errors, github_output, error, exit_status>>

MainCreateDailySalesSummary ==
    /\ pc = "daily"
    /\ DoCreateDailySalesSummary
    /\ pc' = "customer"
    /\ UNCHANGED <<run, persisted, dq, environ, raw, data_files, fact_orders, customer_analytics,
                   product_performance, load_pos, load_log, success_count,
                   warehouse, reported_errors, github_output, error, exit_status>>

MainCreateCustomerAnalytics ==
    /\ pc = "customer"
    /\ DoCreateCustomerAnalytics(Get(data_files["customers"]), "product", "except")
    /\ UNCHANGED <<run, persisted, dq, environ, raw, data_files, fact_orders,
                   daily_sales_summary,
                   product_performance, load_pos, load_log, success_count,
                   warehouse, reported_errors, github_output, exit_status>>

MainCreateProductPerformance ==
    /\ pc = "product"
    /\ DoCreateProductPerformance(Get(data_files["products"]))
    /\ pc' = "load"
    /\ UNCHANGED <<run, persisted, dq, environ, raw, data_files, fact_orders,
                   daily_sales_summary,
                   customer_analytics, load_pos, load_log, success_count,
                   warehouse, reported_errors, github_output, error, exit_status>>

\* -------------------------------------------------------- load_to_bigquery
\* The client is created and create_bigquery_dataset_and_tables finds or
\* creates the dataset; the loop starts with success_count = 0.
LoadBegin ==
    /\ pc = "load"
    /\ load_pos = 0
    /\ calls' = Append(calls, "load_to_bigquery")
    /\ load_pos' = 1
    /\ success_count' = 0
    /\ UNCHANGED <<run, persisted, dq, pc, environ, raw, data_files,
                   fact_orders, daily_sales_summary,
                   customer_analytics, product_performance, reads, load_log,
                   warehouse, reported_errors, github_output, error, exit_status>>

\* The client or create_dataset raises: nothing catches it inside
\* load_to_bigquery, so it reaches main's handler.
LoadBeginRaises ==
    /\ pc = "load"
    /\ load_pos = 0
    /\ calls' = Append(calls, "load_to_bigquery")
    /\ error' = Some("dataset")
    /\ pc' = "except"
    /\ UNCHANGED <<run, persisted, dq, environ, raw, data_files, fact_orders,
                   daily_sales_summary,
                   customer_analytics, product_performance, reads, load_pos,
                   load_log, success_count, warehouse, reported_errors,
                   github_output, exit_status>>

\* Where the loop goes after the table at load_pos.
AfterTable == IF load_pos = Len(TableNames) THEN "summary" ELSE "load"

\* A load job configured with WRITE_APPEND (the default of a load job): the
\* DataFrame's rows are added after the rows the table holds.
LoadTableAppends ==
    /\ pc = "load"
    /\ load_pos \in 1..Len(TableNames)
    /\ warehouse' = [warehouse EXCEPT ![TableNames[load_pos]] =
                        Some((IF @ = None THEN <<>> ELSE Get(@))
                                \o TransformedTables[TableNames[load_pos]])]
    /\ load_log' = Append(load_log, <<TableNames[load_pos], TRUE>>)
    /\ success_count' = success_count + 1
    /\ load_pos' = load_pos + 1
    /\ pc' = AfterTable
    /\ UNCHANGED <<run, persisted, dq, environ, raw, data_files, fact_orders,
                   daily_sales_summary, customer_analytics, product_performance,
                   calls, reads, reported_errors, github_output, error,
                   exit_status>>

\* The load job of the table at load_pos succeeds: WRITE_TRUNCATE replaces the
\* table's content with the DataFrame.
LoadTable ==
    /\ pc = "load"
    /\ load_pos \in 1..Len(TableNames)
    /\ warehouse' = [warehouse EXCEPT ![TableNames[load_pos]] =
                        Some(TransformedTables[TableNames[load_pos]])]
    /\ load_log' = Append(load_log, <<TableNames[load_pos], TRUE>>)
    /\ success_count' = success_count + 1
    /\ load_pos' = load_pos + 1
    /\ pc' = AfterTable
    /\ UNCHANGED <<run, persisted, dq, environ, raw, data_files, fact_orders,
                   daily_sales_summary,
                   customer_analytics, product_performance, calls, reads,
                   reported_errors, github_output, error, exit_status>>

\* A failed load job that ends the loop: the remaining tables are skipped.
LoadTableFailsBreaks ==
    /\ pc = "load"
    /\ load_pos \in 1..Len(TableNames)
    /\ load_log' = Append(load_log, <<TableNames[load_pos], FALSE>>)
    /\ load_pos' = Len(TableNames) + 1
    /\ pc' = "summary"
    /\ UNCHANGED <<run, persisted, dq, environ, raw, data_files, fact_orders,
                   daily_sales_summary,
                   customer_analytics, product_performance, calls, reads,
                   success_count, warehouse, reported_errors, github_output,
                   error, exit_status>>

\* The load job of the table at load_pos fails: the except clause prints the
\* failure and the loop goes on with the next table.
LoadTableFails ==
    /\ pc = "load"
    /\ load_pos \in 1..Len(TableNames)
    /\ load_log' = Append(load_log, <<TableNames[load_pos], FALSE>>)
    /\ load_pos' = load_pos + 1
    /\ pc' = AfterTable
    /\ UNCHANGED <<run, persisted, dq, environ, raw, data_files, fact_orders,
                   daily_sales_summary,
                   customer_analytics, product_performance, calls, reads,
                   success_count, warehouse, reported_errors, github_output,
                   error, exit_status>>

\* ------------------------------------------------- main: summary and exit
\* f"{total_revenue:.2f}" and f"{avg_profit_margin:.1f}" (tenths of a percent;
\* not a number when the fact table has no revenue).
SummaryTotalRevenue ==
    Round2(SumSkipNa(ColP(Get(fact_orders), "revenue_after_discount")))

SummaryProfitMargin ==
    LET total_profit == SumSkipNa(Col(Get(fact_orders), "net_profit"))
        revenue == SumSkipNa(ColP(Get(fact_orders), "item_total"))
    IN  IF revenue <= 0 THEN NaN ELSE {RoundHalfEven(total_profit * 1000, revenue)}

OutputLines ==
    << <<"tables_created", Len(TableNames)>>,
       <<"total_revenue", SummaryTotalRevenue>>,
       <<"profit_margin", SummaryProfitMargin>> >>

WritesOutputs == {"GITHUB_ACTIONS", "GITHUB_OUTPUT"} \subseteq environ

\* An else branch without exit(1).
DegradedExitStatusZero(env) == 0

\* Exit status after the else branch: exit(1) in GitHub Actions, otherwise
\* main returns and the interpreter exits with 0.
DegradedExitStatus(env) == IF "GITHUB_ACTIONS" \in env THEN 1 ELSE 0

\* An except branch that prints and returns outside GitHub Actions, and
\* neither exits nor re-raises inside.
HandlerExitStatusSwallowed(env) == 0

\* Exit status after the except branch: exit(1) in GitHub Actions, otherwise
\* the exception is re-raised, uncaught, and the interpreter exits with 1.
HandlerExitStatus(env) == IF "GITHUB_ACTIONS" \in env THEN 1 ELSE 1

\* Every table was loaded: the success branch, with the outputs written when
\* both environment names are set.
MainSuccess ==
    /\ pc = "summary"
    /\ success_count = Len(TableNames)
    /\ github_output' = IF WritesOutputs THEN github_output \o OutputLines
                        ELSE github_output
    /\ exit_status' = Some(0)
    /\ pc' = "done"
    /\ UNCHANGED <<run, persisted, dq, environ, raw, data_files, fact_orders,
                   daily_sales_summary,
                   customer_analytics, product_performance, calls, reads,
                   load_pos, load_log, success_count, warehouse,
                   reported_errors, error>>

\* Opening the GITHUB_OUTPUT file raises.
MainSuccessOutputRaises ==
    /\ pc = "summary"
    /\ success_count = Len(TableNames)
    /\ WritesOutputs
    /\ error' = Some("output")
    /\ pc' = "except"
    /\ UNCHANGED <<run, persisted, dq, environ, raw, data_files, fact_orders,
                   daily_sales_summary,
                   customer_analytics, product_performance, calls, reads,
                   load_pos, load_log, success_count, warehouse,
                   reported_errors, github_output, exit_status>>

\* An else branch that follows the writing of the outputs: the outputs are
\* written outside the check of success_count.
MainDegradedWritesOutputs ==
    /\ pc = "summary"
    /\ success_count # Len(TableNames)
    /\ github_output' = IF WritesOutputs THEN github_output \o OutputLines
                        ELSE github_output
    /\ reported_errors' = Some(Len(TableNames) - success_count)
    /\ exit_status' = Some(DegradedExitStatus(environ))
    /\ pc' = "done"
    /\ UNCHANGED <<run, persisted, dq, environ, raw, data_files, fact_orders,
                   daily_sales_summary, customer_analytics, product_performance,
                   calls, reads, load_pos, load_log, success_count, warehouse,
                   error>>

\* Some table was not loaded: the else branch prints the number of errors.
MainDegraded ==
    /\ pc = "summary"
    /\ success_count # Len(TableNames)
    /\ reported_errors' = Some(Len(TableNames) - success_count)
    /\ exit_status' = Some(DegradedExitStatus(environ))
    /\ pc' = "done"
    /\ UNCHANGED <<run, persisted, dq, environ, raw, data_files, fact_orders,
                   daily_sales_summary,
                   customer_analytics, product_performance, calls, reads,
                   load_pos, load_log, success_count, warehouse,
                   github_output, error>>

\* main's except clause.
MainExcept ==
    /\ pc = "except"
    /\ exit_status' = Some(HandlerExitStatus(environ))
    /\ pc' = "done"
    /\ UNCHANGED <<run, persisted, dq, environ, raw, data_files, fact_orders,
                   daily_sales_summary,
                   customer_analytics, product_performance, calls, reads,
                   load_pos, load_log, success_count, warehouse,
                   reported_errors, github_output, error>>

Next ==
    \/ MainStart
    \/ DownloadFile
    \/ DownloadFails
    \/ MainCreateFactOrders
    \/ MainCreateDailySalesSummary
    \/ MainCreateCustomerAnalytics
    \/ MainCreateProductPerformance
    \/ LoadBegin
    \/ LoadBeginRaises
    \/ LoadTable
    \/ LoadTableFails
    \/ MainSuccess
    \/ MainSuccessOutputRaises
    \/ MainDegraded
    \/ MainExcept

Spec == Init /\ [][Next]_vars

\* ------------------------------------------------------ successive runs
\* The orders tables the bucket holds in successive runs: the scenario's
\* order A with an order of C2, and order B with an order of an unknown
\* customer for an unknown product.
RunBuckets == {<<RunOrderRows[1], RunOrderRows[3]>>,
               <<RunOrderRows[2], RunOrderRows[5]>>}

\* The tables this run has loaded.
LoadedTables == {load_log[i][1] : i \in {j \in 1..Len(load_log) : load_log[j][2]}}

\* A run has ended and the pipeline is started again: a new process, a
\* bucket with new orders, the same warehouse dataset.
NewRun ==
    /\ pc = "done"
    /\ run < MaxRuns
    /\ run' = run + 1
    /\ persisted' = [t \in DOMAIN persisted |->
                        IF t \in LoadedTables THEN Some(TransformedTables[t])
                        ELSE persisted[t]]
    /\ \E orders \in RunBuckets : raw' = [raw EXCEPT !.orders = orders]
    /\ pc' = "main"
    /\ data_files' = [f \in DOMAIN data_files |-> None]
    /\ fact_orders' = None
    /\ daily_sales_summary' = None
    /\ customer_analytics' = None
    /\ product_performance' = None
    /\ calls' = <<>>
    /\ reads' = [b \in AggregateBuilders |-> {}]
    /\ load_pos' = 0
    /\ load_log' = <<>>
    /\ success_count' = 0
    /\ reported_errors' = None
    /\ github_output' = <<>>
    /\ error' = None
    /\ exit_status' = None
    /\ UNCHANGED <<environ, warehouse, dq>>

InitRuns ==
    /\ pc = "main"
    /\ \E orders \in RunBuckets :
          Fresh({"GITHUB_ACTIONS", "GITHUB_OUTPUT"},
                [products |-> ProductsMaster, customers |-> CustomersMaster,
                 orders |-> orders])

NextRuns == Next \/ NewRun

SpecRuns == InitRuns /\ [][NextRuns]_vars

\* ------------------------------------------------------- data_quality.py
\* The tables whose record counts are checked.
CheckedTables == <<"fact_orders", "daily_sales_summary", "customer_analytics",
                   "product_performance">>

\* abs(fact_total - summary_total) > 1: one currency unit, in mills.
RevenueTolerance == 1000

\* days_old > 1.
MaxDaysOld == 1

\* The days the checks run on: the day of the latest order of the catalogue
\* or later.
CheckDays == 2..MaxCheckDay

Abs(x) == IF x < 0 THEN -x ELSE x

\* SELECT COUNT(*), SUM(col) and MAX(col) over the rows of a table; SUM and
\* MAX of no rows are NULL.
SqlCount(rows) == Len(rows)
SqlSum(rows, col) == IF rows = <<>> THEN NaN ELSE {SumSkipNa(ColP(rows, col))}
SqlMax(rows, col) == IF rows = <<>> THEN NaN ELSE {Max(Values(rows, col))}

\* A query over a table the dataset does not hold raises NotFound.
QueryRaises(wh) == \E i \in 1..Len(CheckedTables) : wh[CheckedTables[i]] = None

\* Check 1: a table whose count is 0 is recorded as empty.
EmptyIssues(wh) ==
    {<<"empty", CheckedTables[i]>> :
        i \in {j \in 1..Len(CheckedTables) :
                  SqlCount(Get(wh[CheckedTables[j]])) = 0}}

\* Check 2: the two totals differ by more than the tolerance.
RevenueMismatch(fact_total, summary_total) ==
    Abs(fact_total - summary_total) > RevenueTolerance

\* Check 3: the latest order is more than MaxDaysOld days before today.
IsStaleOffByOne(days_old) == days_old >= MaxDaysOld

IsStale(days_old) == days_old > MaxDaysOld

\* The operands of checks 2 and 3.
FactTotal(wh) == SqlSum(Get(wh["fact_orders"]), "item_total")
SummaryTotal(wh) == SqlSum(Get(wh["daily_sales_summary"]), "total_revenue")
LatestOrder(wh) == SqlMax(Get(wh["fact_orders"]), "order_date")

\* A NULL operand: the comparison is false on a float NaN and raises on a
\* missing value of another type, so the check either records nothing or
\* raises.
NullOperand(wh) ==
    FactTotal(wh) = NaN \/ SummaryTotal(wh) = NaN \/ LatestOrder(wh) = NaN

\* The issues list at the summary.
Issues(wh, today) ==
    EmptyIssues(wh)
    \cup (IF /\ FactTotal(wh) # NaN
             /\ SummaryTotal(wh) # NaN
             /\ RevenueMismatch(Get(FactTotal(wh)), Get(SummaryTotal(wh)))
          THEN {<<"revenue mismatch">>} ELSE {})
    \cup (IF /\ LatestOrder(wh) # NaN
             /\ IsStale(today - Get(LatestOrder(wh)))
          THEN {<<"stale">>} ELSE {})

\* return True if the list of issues is empty, else return False.
DataQualityResult(issues) == issues = {}

\* run_data_quality_checks runs to its return statement.
DataQualityReturns ==
    /\ pc = "done"
    /\ dq.status = "not run"
    /\ ~QueryRaises(warehouse)
    /\ \E today \in CheckDays :
          dq' = [status |-> "returned", today |-> today,
                 issues |-> Issues(warehouse, today)]
    /\ UNCHANGED <<run, persisted, pc, environ, raw, data_files, fact_orders,
                   daily_sales_summary, customer_analytics, product_performance,
                   calls, reads, load_pos, load_log, success_count, warehouse,
                   reported_errors, github_output, error, exit_status>>

\* A query or a comparison raises; main() of data_quality.py prints the
\* exception and ends.
DataQualityRaises ==
    /\ pc = "done"
    /\ dq.status = "not run"
    /\ IF QueryRaises(warehouse) THEN TRUE ELSE NullOperand(warehouse)
    /\ \E today \in CheckDays :
          dq' = [status |-> "raised", today |-> today, issues |-> {}]
    /\ UNCHANGED <<run, persisted, pc, environ, raw, data_files, fact_orders,
                   daily_sales_summary, customer_analytics, product_performance,
                   calls, reads, load_pos, load_log, success_count, warehouse,
                   reported_errors, github_output, error, exit_status>>

\* The rows the orders table is drawn from when the checks follow the run:
\* the rows of a run, and two more orders for the unknown product, one of two
\* items and one of 1.00.
QualityOrderRows ==
    RunOrderRows
    \o << [order_id |-> "O2", customer_id |-> "C1", order_date |-> 2,
           product_id |-> "P9", quantity |-> 2, unit_price |-> 30000,
           item_total |-> 60000, discount_amount |-> 0],
          [order_id |-> "O3", customer_id |-> "C2", order_date |-> 1,
           product_id |-> "P9", quantity |-> 1, unit_price |-> 1000,
           item_total |-> 1000, discount_amount |-> 0] >>

InitQuality ==
    /\ pc = "main"
    /\ \E orders \in OrdersTables(QualityOrderRows, MaxRunOrders) :
          Fresh({"GITHUB_ACTIONS", "GITHUB_OUTPUT"},
                [products |-> ProductsMaster, customers |-> CustomersMaster,
                 orders |-> orders])

NextQuality == Next \/ DataQualityReturns \/ DataQualityRaises

SpecQuality == InitQuality /\ [][NextQuality]_vars

\* ================================================================= claims
UniqueIds(table, key) ==
    \A i, j \in 1..Len(table) : table[i][key] = table[j][key] => i = j

Matched(table, key, id) == \E i \in 1..Len(table) : table[i][key] = id

\* C1: with product and customer masters whose ids are unique,
\* create_fact_orders returns one row per order, in order, carrying the
\* order's own columns; an order whose product (customer) id matches nothing
\* is kept with missing product (customer) attributes.
C1_FactKeepsEveryOrder ==
    (/\ fact_orders # None
     /\ UniqueIds(raw.products, "product_id")
     /\ UniqueIds(raw.customers, "customer_id"))
    => LET fact == Get(fact_orders)
       IN  /\ Len(fact) = Len(raw.orders)
           /\ \A i \in 1..Len(raw.orders) :
                 /\ \A c \in DOMAIN raw.orders[i] : fact[i][c] = raw.orders[i][c]
                 /\ ~Matched(raw.products, "product_id", raw.orders[i].product_id)
                       => fact[i].category = NaN /\ fact[i].cost = NaN
                 /\ ~Matched(raw.customers, "customer_id", raw.orders[i].customer_id)
                       => fact[i].city = NaN

C1_Witness ==
    /\ fact_orders # None
    /\ UniqueIds(raw.products, "product_id")
    /\ UniqueIds(raw.customers, "customer_id")
    /\ Len(raw.orders) >= 2
    /\ Len(Get(fact_orders)) = Len(raw.orders)
    /\ \E i \in 1..Len(Get(fact_orders)) : Get(fact_orders)[i].category = NaN
    /\ \E i \in 1..Len(Get(fact_orders)) : Get(fact_orders)[i].city = NaN

\* C2: for a non-empty fact table, the summed total_revenue of the daily
\* summary equals the summed item_total of the fact table within 1.0,
\* rows with a missing category included.
C2_DailyRevenueReconciles ==
    (daily_sales_summary # None /\ Get(fact_orders) # <<>>)
    => LET d == SumSkipNa(ColP(Get(daily_sales_summary), "total_revenue"))
              - SumSkipNa(ColP(Get(fact_orders), "item_total"))
       IN  d <= 1000 /\ -d <= 1000

\* C8: the revenue ranks of a product performance table are exactly 1..k for
\* k distinct revenues, equal revenues share a rank and a higher revenue has
\* a smaller rank; likewise the profit ranks over total_profit.
DenseRanked(table, value, rank) ==
    /\ {table[i][rank] : i \in 1..Len(table)}
          = 1..Cardinality({table[i][value] : i \in 1..Len(table)})
    /\ \A i, j \in 1..Len(table) :
          /\ table[i][value] = table[j][value] => table[i][rank] = table[j][rank]
          /\ table[i][value] > table[j][value] => table[i][rank] < table[j][rank]

C8_RanksAreDense ==
    product_performance # None
    => /\ DenseRanked(Get(product_performance), "total_revenue", "revenue_rank")
       /\ DenseRanked(Get(product_performance), "total_profit", "profit_rank")

C8_Witness ==
    /\ product_performance # None
    /\ UniqueIds(raw.products, "product_id")
    /\ LET t == Get(product_performance)
       IN  /\ Len(t) = 3
           /\ {t[i].revenue_rank : i \in 1..Len(t)} = {1, 2}
           /\ \E i, j \in 1..Len(t) :
                 i # j /\ t[i].revenue_rank = 1 /\ t[j].revenue_rank = 1

\* C9: with fewer than 4 distinct customers in the fact table,
\* create_customer_analytics does not return a table carrying ltv_segment
\* labels.
C9_FewCustomersNoSegments ==
    (fact_orders # None /\ Cardinality(Values(Get(fact_orders), "customer_id")) < 4)
    => customer_analytics = None

\* C10: on an empty orders table create_fact_orders returns an empty table,
\* each aggregate builder returns an empty table, and none of them raises.
C10_EmptyOrdersEmptyTables ==
    raw.orders = <<>>
    => /\ fact_orders \in {None, Some(<<>>)}
       /\ daily_sales_summary \in {None, Some(<<>>)}
       /\ customer_analytics \in {None, Some(<<>>)}
       /\ product_performance \in {None, Some(<<>>)}
       /\ pc # "raised"
       /\ error = None
       /\ (pc = "returned" =>
              \/ daily_sales_summary = Some(<<>>)
              \/ customer_analytics = Some(<<>>)
              \/ product_performance = Some(<<>>))

\* The attempts of the load loop that succeeded, and those that failed.
Loaded == {i \in 1..Len(load_log) : load_log[i][2]}
Failed == {i \in 1..Len(load_log) : ~load_log[i][2]}
LoadReturned == load_pos = Len(TableNames) + 1
AllPersisted ==
    /\ Len(load_log) = Len(TableNames)
    /\ Failed = {}
    /\ \A i \in 1..Len(TableNames) : warehouse[TableNames[i]] # None

\* C3: a table that fails to load does not stop load_to_bigquery: once it
\* has returned, every table of the dictionary was attempted, in order, the
\* returned count is the number of tables loaded, and the number of errors
\* main reports is the number of tables minus that count.
C3_LoadFailureIsNotFatal ==
    /\ success_count = Cardinality(Loaded)
    /\ LoadReturned
       => /\ Len(load_log) = Len(TableNames)
          /\ \A i \in 1..Len(TableNames) : load_log[i][1] = TableNames[i]
          /\ \A i \in Loaded : warehouse[TableNames[i]] # None
    /\ reported_errors # None => reported_errors = Some(Cardinality(Failed))
    /\ (pc = "done" /\ LoadReturned /\ Failed # {})
       => reported_errors = Some(Len(TableNames) - success_count)

C3_Witness ==
    /\ pc = "done"
    /\ LoadReturned
    /\ 1 \in Failed
    /\ Loaded = 2..Len(TableNames)
    /\ success_count = Len(TableNames) - 1
    /\ reported_errors = Some(1)

\* C4: when the retrieval of one of the three raw datasets fails, no builder
\* is invoked and no table is persisted in that run.
C4_RetrievalFailureAborts ==
    error = Some("download")
    => /\ \A i \in 1..Len(calls) : calls[i] = "download_from_gcs"
       /\ fact_orders = None
       /\ daily_sales_summary = None
       /\ customer_analytics = None
       /\ product_performance = None
       /\ load_log = <<>>
       /\ \A i \in 1..Len(TableNames) : warehouse[TableNames[i]] = None
       /\ pc \in {"except", "done"}

C4_Witness ==
    /\ pc = "done"
    /\ error = Some("download")
    /\ data_files["customers"] # None
    /\ data_files["orders"] = None
    /\ calls = <<"download_from_gcs">>
    /\ exit_status # None

\* C5 as stated: a process that ends with exit status 0 has persisted every
\* table, in every environment.
C5_ExitZeroMeansAllPersisted ==
    (pc = "done" /\ exit_status = Some(0)) => AllPersisted

\* C5 as amended: a process that ends with exit status 0 has raised no
\* exception and has attempted every table, and in GitHub Actions it has
\* persisted every table; a local run that only counted its failed loads also
\* ends with exit status 0.
C5_ExitZeroAmended ==
    /\ (pc = "done" /\ exit_status = Some(0))
       => /\ error = None
          /\ LoadReturned
          /\ Len(load_log) = Len(TableNames)
          /\ "GITHUB_ACTIONS" \in environ => AllPersisted
    /\ (pc = "done" /\ error = None /\ "GITHUB_ACTIONS" \notin environ)
       => exit_status = Some(0)

C5_Witness ==
    /\ pc = "done"
    /\ exit_status = Some(0)
    /\ "GITHUB_ACTIONS" \in environ
    /\ AllPersisted

\* C6: in GitHub Actions, a process in which a table failed to load or a
\* stage raised ends with a non-zero exit status.
C6_AutomatedFailureExitsNonZero ==
    (/\ pc = "done"
     /\ "GITHUB_ACTIONS" \in environ
     /\ (Failed # {} \/ error # None))
    => (exit_status # None /\ exit_status # Some(0))

C6_Witness ==
    /\ pc = "done"
    /\ "GITHUB_ACTIONS" \in environ
    /\ Failed # {}
    /\ error = None
    /\ exit_status = Some(1)

\* C7: create_fact_orders has returned before an aggregate builder is called,
\* the three aggregate builders have returned before load_to_bigquery is
\* called, a builder is passed only the fact table and its own master, and
\* the fact table, once built, is never changed.
Before(f, i) == \E j \in 1..(i - 1) : calls[j] = f

C7_Ordering ==
    /\ \A i \in 1..Len(calls) :
          /\ calls[i] \in AggregateBuilders
                => Before("create_fact_orders", i) /\ fact_orders # None
          /\ calls[i] = "load_to_bigquery"
                => /\ \A b \in AggregateBuilders : Before(b, i)
                   /\ daily_sales_summary # None
                   /\ customer_analytics # None
                   /\ product_performance # None
    /\ load_log # <<>> => \E i \in 1..Len(calls) : calls[i] = "load_to_bigquery"
    /\ reads["create_daily_sales_summary"] \subseteq {"fact_orders"}
    /\ reads["create_customer_analytics"] \subseteq {"fact_orders", "customers"}
    /\ reads["create_product_performance"] \subseteq {"fact_orders", "products"}

C7_BuildersInOrder ==
    [](C7_Ordering) /\ [][fact_orders # None => fact_orders' = fact_orders]_vars

C7_Witness ==
    /\ pc = "load"
    /\ load_log # <<>>
    /\ calls = <<"download_from_gcs", "create_fact_orders",
                 "create_daily_sales_summary", "create_customer_analytics",
                 "create_product_performance", "load_to_bigquery">>
    /\ \E i \in 1..Len(Get(fact_orders)) : Get(fact_orders)[i].category = NaN

\* C11: for the two-order scenario (orders A and B of customer C1, item totals
\* 20.00 and 50.00, net profits 11.00 and 30.00), create_fact_orders followed
\* by create_customer_analytics yields a table with a row for C1 that has
\* total_spent 70.00, total_orders 2 and total_profit_generated 41.00.
ScenarioOrders == <<OrderRows[1], OrderRows[8]>>

C11_ScenarioCustomerRow ==
    (/\ raw.orders = ScenarioOrders
     /\ raw.products = ProductsMaster
     /\ raw.customers = CustomersMaster
     /\ calls = <<"create_fact_orders", "create_customer_analytics">>)
    => /\ customer_analytics # None
       /\ \E i \in 1..Len(Get(customer_analytics)) :
             /\ Get(customer_analytics)[i].customer_id = "C1"
             /\ Get(customer_analytics)[i].total_spent = 70000
             /\ Get(customer_analytics)[i].total_orders = 2
             /\ Get(customer_analytics)[i].total_profit_generated = 41000

\* C12: across pipeline runs every warehouse table holds exactly the dataset
\* computed by the most recent run whose load of that table succeeded (and
\* nothing before the first such run): a successful load replaces the whole
\* content, a failed load leaves the content as it was.
C12_WarehouseHoldsLatestLoad ==
    \A t \in DOMAIN warehouse :
       warehouse[t] = IF t \in LoadedTables THEN Some(TransformedTables[t])
                      ELSE persisted[t]

C12_Witness ==
    /\ run = 2
    /\ pc = "done"
    /\ Len(load_log) = Len(TableNames)
    /\ load_log[1] = <<"fact_orders", FALSE>>
    /\ load_log[2] = <<"daily_sales_summary", TRUE>>
    /\ persisted["fact_orders"] # None
    /\ persisted["daily_sales_summary"] # None
    /\ warehouse["fact_orders"] = persisted["fact_orders"]
    /\ warehouse["fact_orders"] # fact_orders
    /\ warehouse["daily_sales_summary"] = daily_sales_summary
    /\ warehouse["daily_sales_summary"] # persisted["daily_sales_summary"]

\* C13: run_data_quality_checks returns True if and only if none of the four
\* checked tables is empty, the summed item_total of fact_orders and the summed
\* total_revenue of daily_sales_summary differ by at most 1 currency unit, and
\* the latest order date is at most 1 day before the day of the check; the
\* checks only record issues and leave every warehouse table as it was.
CheckedRows(t) == IF warehouse[t] = None THEN <<>> ELSE Get(warehouse[t])

C13_Conditions ==
    /\ \A i \in 1..Len(CheckedTables) : Len(CheckedRows(CheckedTables[i])) > 0
    /\ Abs(SumSkipNa(ColP(CheckedRows("fact_orders"), "item_total"))
           - SumSkipNa(ColP(CheckedRows("daily_sales_summary"), "total_revenue")))
          <= 1000
    /\ dq.today - Max(Values(CheckedRows("fact_orders"), "order_date")) <= 1

C13_ReturnsTrue == dq.status = "returned" /\ DataQualityResult(dq.issues)

C13_TrueIffChecksPass == dq.status # "not run" => (C13_ReturnsTrue <=> C13_Conditions)

\* C13: in every state the checks have returned True exactly when the three
\* conditions hold, and no step of the checks changes a warehouse table.
C13_QualityChecks ==
    [](C13_TrueIffChecksPass) /\ [][dq' # dq => warehouse' = warehouse]_vars

C13_Witness ==
    /\ dq.status = "returned"
    /\ dq.issues = {<<"revenue mismatch">>, <<"stale">>}
    /\ AllPersisted
    /\ \A i \in 1..Len(TableNames) :
          warehouse[TableNames[i]] = Some(TransformedTables[TableNames[i]])

\* C14: the result values tables_created, total_revenue and profit_margin are
\* written only in a run in which every table was persisted and no stage
\* raised, the written tables_created is then the number of tables persisted,
\* and a run with a failed load or a raised error writes no result value.
C14_OutputsOnlyWhenAllPersisted ==
    /\ github_output # <<>> =>
          /\ AllPersisted
          /\ error = None
          /\ [i \in 1..Len(github_output) |-> github_output[i][1]]
                = <<"tables_created", "total_revenue", "profit_margin">>
          /\ github_output[1][2] = Cardinality(Loaded)
          /\ github_output[1][2]
                = Cardinality({t \in DOMAIN warehouse : warehouse[t] # None})
    /\ (Failed # {} \/ error # None) => github_output = <<>>

C14_Witness ==
    /\ pc = "done"
    /\ WritesOutputs
    /\ Len(github_output) = 3
    /\ github_output[1] = <<"tables_created", 6>>
    /\ github_output[2][2] = SummaryTotalRevenue
    /\ Cardinality(Loaded) = 6

====
